---- MODULE Spec2Model ----
(***************************************************************************)
(* LocatorMultiSystem: the LocationService singleton                       *)
(* (src/Locator/services/LocationService.ts) and the LocationTracker view  *)
(* (src/Locator/components/LocationTracker.tsx) over the expo-location /   *)
(* expo-task-manager platform API.                                         *)
(*                                                                         *)
(* Every async method is cut at its awaits: one action for the part that   *)
(* runs synchronously when the method is invoked (up to the first await),  *)
(* and one action per way each awaited platform promise can settle         *)
(* (resolve / reject), which runs the continuation up to the next await or *)
(* the return.  JavaScript is single threaded, so each such part is atomic,*)
(* and the parts of different calls interleave freely.                     *)
(***************************************************************************)
EXTENDS Integers, Sequences, FiniteSets, TLC

\* ------------------------------------------------------------------ bounds
MaxHandles == 2   \* watch subscriptions the platform hands out in one run
MaxCalls == 2     \* service calls that may be in flight at the same time
MaxDeliveries == 2  \* callback invocations recorded in one run

\* ------------------------------------------------------------- value sets
\* A value of type T | null is a sequence: <<>> for null, <<v>> for v.
Null == <<>>
Some(v) == <<v>>
Undefined == "undefined"  \* an absent callback
NoSubscription == 0       \* locationSubscription / watchSubscription = null

\* What the platform hands to a watch callback or returns from a one-shot
\* fetch: a LocationObject, with more fields than LocationData keeps.
\* Degrees are in 1e-6 degree units, accuracy in 0.1 m units.
PlatformLocations ==
  { [coords |-> [latitude |-> 37000000, longitude |-> -122000000,
                 accuracy |-> Some(50), altitude |-> 12],
     timestamp |-> 1000],
    [coords |-> [latitude |-> 37000100, longitude |-> -122000000,
                 accuracy |-> Null, altitude |-> 12],
     timestamp |-> 11000] }

\* The object literal built from a LocationObject (the four copied fields).
ToLocationData(location) ==
  [latitude |-> location.coords.latitude,
   longitude |-> location.coords.longitude,
   accuracy |-> location.coords.accuracy,
   timestamp |-> location.timestamp]

Callbacks == {"A", "B"}              \* callbacks a caller may pass
CallbackArgs == Callbacks \cup {Undefined}   \* onLocationUpdate? is optional
PermissionStatuses == {"granted", "denied"}
CallIds == 1..MaxCalls

VARIABLES
  \* LocationService fields
  isTracking, currentLocation, locationSubscription, onLocationUpdate,
  \* platform (expo-location / expo-task-manager) state
  live,          \* watch subscriptions opened and not yet removed
  opened,        \* how many subscriptions watchPositionAsync has handed out
  taskRegistered,\* whether the LOCATION_TRACKING background task is registered
  \* service calls in flight, by call id
  calls,
  \* observation of the run
  ev,            \* what the last step did
  invoked,       \* the samples handed to callbacks by the service, in order
  startedTrue,   \* a startTracking has returned true and no stopTracking was
                 \* invoked since
  overlapped,    \* <<a>>: startTracking(a) was invoked with no call in flight
                 \* and has not returned; <<a, b>>: startTracking(b) was
                 \* invoked next, before it returned; <<>> after any other
                 \* invocation
  stopDuringStart, \* stopTracking was invoked while a startTracking was in
                 \* flight, and no startTracking was invoked since
  \* LocationTracker component state (useState) and lifecycle
  viewIsTracking, viewCurrentLocation, hasPermission, lastUpdateTime,
  watchSubscription,
  mounted,       \* the component is mounted
  confirmOpen,   \* the 'Start Location Tracking' prompt is showing
  pending        \* the view's platform calls that have not settled, by kind

svcVars == <<isTracking, currentLocation, locationSubscription,
             onLocationUpdate,
             live, opened, taskRegistered,
             calls, ev, invoked, startedTrue, overlapped, stopDuringStart>>

viewVars == <<viewIsTracking, viewCurrentLocation, hasPermission,
              lastUpdateTime, watchSubscription, mounted, confirmOpen, pending>>

vars == <<svcVars, viewVars>>

\* ------------------------------------------------------------ call records
\* op: the method; pc: the await the call is suspended at; path: how a call
\* that settled got to its end.
Idle == [op |-> "none", pc |-> "idle", path |-> ""]

InFlight(c) == calls[c].pc # "idle"

\* A caller's new call takes the lowest free call id.
FreeId(c) ==
  /\ ~InFlight(c)
  /\ \A d \in CallIds : d < c => InFlight(d)

Settle(c) == [calls EXCEPT ![c] = Idle]

\* No service call is in flight.
Quiescent == \A c \in CallIds : ~InFlight(c)

\* A startTracking call is in flight.
StartInFlight == \E c \in CallIds : calls[c].op = "start" /\ InFlight(c)

\* overlapped after a startTracking returned: a start that returned alone
\* did not overlap another.
OverlapAfterReturn == IF Len(overlapped) = 1 THEN <<>> ELSE overlapped

\* The event of a step of call c.  step: "call" (the synchronous part of the
\* invocation, suspended at an await), "resume" (a continuation, suspended
\* again), "return" (the call's promise settled), "throw" (it rejected).
\* ok: the boolean a startTracking / requestPermissions returned.
\* val: the LocationData | null a getCurrentLocation returned.
\* api: the platform functions the step called.  call: the call's record.
\* cb: the callback the step invoked (Undefined: none).
\* seq: the step invoked startTracking while startedTrue held.
Event(op, step, ok, val, api, rec) ==
  [op |-> op, step |-> step, ok |-> ok, val |-> val, api |-> api, call |-> rec,
   cb |-> Undefined, seq |-> FALSE]

NoEvent == Event("none", "init", FALSE, Null, {}, Idle)

Init ==
  /\ isTracking = FALSE
  /\ currentLocation = Null
  /\ locationSubscription = NoSubscription
  /\ onLocationUpdate = Undefined
  /\ live = {}
  /\ opened = 0
  /\ taskRegistered = FALSE
  /\ calls = [c \in CallIds |-> Idle]
  /\ ev = NoEvent
  /\ invoked = <<>>
  /\ startedTrue = FALSE
  /\ overlapped = <<>>
  /\ stopDuringStart = FALSE
  \* the view after its first render and its mount effect, which has called
  \* checkPermissions()
  /\ viewIsTracking = FALSE
  /\ viewCurrentLocation = Null
  /\ hasPermission = Null
  /\ lastUpdateTime = ""
  /\ watchSubscription = NoSubscription
  /\ mounted = TRUE
  /\ confirmOpen = FALSE
  /\ pending = [perm |-> 1, watch |-> 0, initial |-> 0, fetch |-> 0]

\* ===================================================== LocationService
\* ------------------------------------------------- requestPermissions

\* requestPermissions(): runs to the first await, the foreground request.
RequestPermissions(c) ==
  /\ FreeId(c)
  /\ calls' = [calls EXCEPT ![c] = [Idle EXCEPT !.op = "perm", !.pc = "fg"]]
  /\ ev' = Event("perm", "call", FALSE, Null,
                 {"requestForegroundPermissionsAsync"}, calls'[c])
  /\ UNCHANGED <<isTracking, currentLocation, locationSubscription,
                 onLocationUpdate, live, opened, taskRegistered, invoked,
                 startedTrue>>
  /\ UNCHANGED <<overlapped, stopDuringStart>>
  /\ UNCHANGED viewVars

\* Mutant of ForegroundProceeds: the foreground status is not checked.
ForegroundAlwaysProceeds(status) == TRUE

\* Whether requestPermissions goes on to the background request.
ForegroundProceeds(status) == ~(status # "granted")

\* The foreground request resolved with `status`: false unless granted,
\* otherwise on to the background request.
ForegroundResolved(c, status) ==
  /\ calls[c].op = "perm" /\ calls[c].pc = "fg"
  /\ IF ForegroundProceeds(status)
       THEN /\ calls' = [calls EXCEPT ![c].pc = "bg"]
            /\ ev' = Event("perm", "resume", FALSE, Null,
                           {"requestBackgroundPermissionsAsync"},
                           [calls'[c] EXCEPT !.path = "fg:" \o status])
       ELSE /\ calls' = Settle(c)
            /\ ev' = Event("perm", "return", FALSE, Null, {},
                           [calls[c] EXCEPT !.path = "fg:" \o status])
  /\ UNCHANGED <<isTracking, currentLocation, locationSubscription,
                 onLocationUpdate, live, opened, taskRegistered, invoked,
                 startedTrue>>
  /\ UNCHANGED <<overlapped, stopDuringStart>>
  /\ UNCHANGED viewVars

\* The value requestPermissions returns once the background request resolved.
BackgroundResult(status) == IF status # "granted" THEN TRUE ELSE TRUE

\* The background request resolved with `status`.
BackgroundResolved(c, status) ==
  /\ calls[c].op = "perm" /\ calls[c].pc = "bg"
  /\ calls' = Settle(c)
  /\ ev' = Event("perm", "return", BackgroundResult(status), Null, {},
                 [calls[c] EXCEPT !.path = "bg:" \o status])
  /\ UNCHANGED <<isTracking, currentLocation, locationSubscription,
                 onLocationUpdate, live, opened, taskRegistered, invoked,
                 startedTrue>>
  /\ UNCHANGED <<overlapped, stopDuringStart>>
  /\ UNCHANGED viewVars

\* What the catch block of requestPermissions returns.
PermissionErrorResult == FALSE

\* Either permission request rejected: the catch block.
PermissionRejected(c) ==
  /\ calls[c].op = "perm" /\ calls[c].pc \in {"fg", "bg"}
  /\ calls' = Settle(c)
  /\ ev' = Event("perm", "return", PermissionErrorResult, Null, {},
                 [calls[c] EXCEPT !.path = calls[c].pc \o ":error"])
  /\ UNCHANGED <<isTracking, currentLocation, locationSubscription,
                 onLocationUpdate, live, opened, taskRegistered, invoked,
                 startedTrue>>
  /\ UNCHANGED <<overlapped, stopDuringStart>>
  /\ UNCHANGED viewVars

\* ------------------------------------------------- getCurrentLocation

\* getCurrentLocation(): runs to the await of getCurrentPositionAsync.
GetCurrentLocation(c) ==
  /\ FreeId(c)
  /\ calls' = [calls EXCEPT ![c] = [Idle EXCEPT !.op = "get", !.pc = "fetch"]]
  /\ ev' = Event("get", "call", FALSE, Null, {"getCurrentPositionAsync"},
                 calls'[c])
  /\ overlapped' = <<>>
  /\ UNCHANGED stopDuringStart
  /\ UNCHANGED <<isTracking, currentLocation, locationSubscription,
                 onLocationUpdate, live, opened, taskRegistered, invoked,
                 startedTrue>>
  /\ UNCHANGED viewVars

\* The field value after a fetch that resolved with `location`.
FetchStores(location) == Some(ToLocationData(location))

\* The fetch resolved with `location`: store the sample and return it.
FetchResolved(c, location) ==
  /\ calls[c].op = "get" /\ calls[c].pc = "fetch"
  /\ currentLocation' = FetchStores(location)
  /\ calls' = Settle(c)
  /\ ev' = Event("get", "return", FALSE, Some(ToLocationData(location)), {},
                 [calls[c] EXCEPT !.path = "fetched"])
  /\ UNCHANGED <<isTracking, locationSubscription, onLocationUpdate, live,
                 opened, taskRegistered, invoked, startedTrue>>
  /\ UNCHANGED <<overlapped, stopDuringStart>>
  /\ UNCHANGED viewVars

\* Mutant of FetchFailureStores: a catch block that clears the sample.
FetchFailureClears(stored) == Null

\* The field value after a failed fetch: the catch block writes nothing.
FetchFailureStores(stored) == stored

\* The fetch rejected: the catch block returns null.
FetchRejected(c) ==
  /\ calls[c].op = "get" /\ calls[c].pc = "fetch"
  /\ currentLocation' = FetchFailureStores(currentLocation)
  /\ calls' = Settle(c)
  /\ ev' = Event("get", "return", FALSE, Null, {},
                 [calls[c] EXCEPT !.path = "fetch:error"])
  /\ UNCHANGED <<isTracking, locationSubscription, onLocationUpdate, live,
                 opened, taskRegistered, invoked, startedTrue>>
  /\ UNCHANGED <<overlapped, stopDuringStart>>
  /\ UNCHANGED viewVars

\* ------------------------------------------------------ startTracking

\* Watch calls that have not settled yet.
WatchesPending == Cardinality({d \in CallIds : calls[d].pc = "watch"})

\* The guard of startTracking: an already tracking service returns at once.
AlreadyTracking(tracking) == tracking

\* Mutant of RecordsCallback: a callback already registered is kept.
KeepsFirstCallback(current, cb) == IF current # Undefined THEN current ELSE cb

\* this.onLocationUpdate = onLocationUpdate: the argument replaces whatever
\* was registered.
RecordsCallback(current, cb) == cb

\* startTracking(cb): the early return, or the part up to the await of
\* watchPositionAsync (the callback is recorded before the watch is opened).
StartTracking(c, cb) ==
  /\ FreeId(c)
  /\ isTracking \/ opened + WatchesPending < MaxHandles
  /\ stopDuringStart' = FALSE
  /\ IF AlreadyTracking(isTracking)
       THEN /\ ev' = [Event("start", "return", TRUE, Null, {},
                            [Idle EXCEPT !.op = "start", !.path = "already"])
                        EXCEPT !.seq = startedTrue]
            /\ startedTrue' = TRUE
            /\ overlapped' = <<>>
            /\ UNCHANGED <<onLocationUpdate, calls>>
       ELSE /\ onLocationUpdate' = RecordsCallback(onLocationUpdate, cb)
            /\ overlapped' = IF Quiescent THEN <<cb>>
                             ELSE IF Len(overlapped) = 1
                               THEN Append(overlapped, cb) ELSE <<>>
            /\ calls' = [calls EXCEPT ![c] =
                           [Idle EXCEPT !.op = "start", !.pc = "watch"]]
            /\ ev' = [Event("start", "call", FALSE, Null,
                            {"watchPositionAsync"}, calls'[c])
                        EXCEPT !.seq = startedTrue]
            /\ UNCHANGED startedTrue
  /\ UNCHANGED <<isTracking, currentLocation, locationSubscription, live,
                 opened, taskRegistered, invoked>>
  /\ UNCHANGED viewVars

\* watchPositionAsync resolved with a new subscription: it is stored, and
\* the background part begins with the registration query.
StartWatchResolved(c) ==
  /\ calls[c].op = "start" /\ calls[c].pc = "watch"
  /\ opened < MaxHandles
  /\ opened' = opened + 1
  /\ live' = live \cup {opened'}
  /\ locationSubscription' = opened'
  /\ calls' = [calls EXCEPT ![c].pc = "query"]
  /\ ev' = Event("start", "resume", FALSE, Null, {"isTaskRegisteredAsync"},
                 calls'[c])
  /\ UNCHANGED <<isTracking, currentLocation, onLocationUpdate,
                 taskRegistered,
                 invoked, startedTrue>>
  /\ UNCHANGED <<overlapped, stopDuringStart>>
  /\ UNCHANGED viewVars

\* Mutant of WatchFailureTracking: the flag is set before the watch opened.
WatchFailureSetsTracking(tracking) == TRUE

\* isTracking after watchPositionAsync rejected: the outer catch leaves it.
WatchFailureTracking(tracking) == tracking

\* What the outer catch of startTracking returns.
StartErrorResult == FALSE

\* watchPositionAsync rejected: the outer catch returns false.
StartWatchRejected(c) ==
  /\ calls[c].op = "start" /\ calls[c].pc = "watch"
  /\ isTracking' = WatchFailureTracking(isTracking)
  /\ calls' = Settle(c)
  /\ ev' = Event("start", "return", StartErrorResult, Null, {},
                 [calls[c] EXCEPT !.path = "watch:error"])
  /\ overlapped' = OverlapAfterReturn
  /\ UNCHANGED stopDuringStart
  /\ UNCHANGED <<currentLocation, locationSubscription,
                 onLocationUpdate, live, opened, taskRegistered, invoked,
                 startedTrue>>
  /\ UNCHANGED viewVars

\* The end of startTracking, reached on every path after the watch opened:
\* isTracking = true; return true.
StartCompletes(c, path) ==
  /\ isTracking' = TRUE
  /\ overlapped' = OverlapAfterReturn
  /\ startedTrue' = TRUE
  /\ calls' = Settle(c)
  /\ ev' = Event("start", "return", TRUE, Null, {},
                 [calls[c] EXCEPT !.path = path])

\* isTaskRegisteredAsync resolved: register the background watch unless it
\* is registered already.
StartQueryResolved(c) ==
  /\ calls[c].op = "start" /\ calls[c].pc = "query"
  /\ IF ~taskRegistered
       THEN /\ calls' = [calls EXCEPT ![c].pc = "bgstart"]
            /\ ev' = Event("start", "resume", FALSE, Null,
                           {"startLocationUpdatesAsync"}, calls'[c])
            /\ UNCHANGED <<isTracking, startedTrue, overlapped>>
       ELSE StartCompletes(c, "bg:already")
  /\ UNCHANGED stopDuringStart
  /\ UNCHANGED <<currentLocation, locationSubscription, onLocationUpdate,
                 live, opened, taskRegistered, invoked>>
  /\ UNCHANGED viewVars

\* startLocationUpdatesAsync resolved: the background watch is registered.
StartBackgroundResolved(c) ==
  /\ calls[c].op = "start" /\ calls[c].pc = "bgstart"
  /\ taskRegistered' = TRUE
  /\ StartCompletes(c, "bg:started")
  /\ UNCHANGED stopDuringStart
  /\ UNCHANGED <<currentLocation, locationSubscription, onLocationUpdate,
                 live, opened, invoked>>
  /\ UNCHANGED viewVars

\* Mutant of BackgroundFailureKeeps: a failed background part tears the
\* foreground watch down.
BackgroundFailureReleases(subs) == {}

\* What the inner catch does with the subscriptions when the background
\* part failed: nothing, the foreground watch stays.
BackgroundFailureKeeps(subs) == subs

\* The registration query or the registration rejected: the inner catch
\* logs, and startTracking goes on to isTracking = true; return true.
StartBackgroundRejected(c) ==
  /\ calls[c].op = "start" /\ calls[c].pc \in {"query", "bgstart"}
  /\ live' = BackgroundFailureKeeps(live)
  /\ StartCompletes(c, calls[c].pc \o ":error")
  /\ UNCHANGED stopDuringStart
  /\ UNCHANGED <<currentLocation, locationSubscription, onLocationUpdate,
                 opened, taskRegistered, invoked>>
  /\ UNCHANGED viewVars

\* ------------------------------------------------------- stopTracking

\* Mutant of NothingToStop: the guard is missing.
NeverNothingToStop(tracking) == FALSE

\* The guard of stopTracking: nothing to do unless tracking.
NothingToStop(tracking) == ~tracking

\* stopTracking(): the no-op return, or the part up to the await of
\* isTaskRegisteredAsync (the foreground subscription is removed first).
StopTracking(c) ==
  /\ FreeId(c)
  /\ startedTrue' = FALSE
  /\ overlapped' = <<>>
  /\ stopDuringStart' = (stopDuringStart \/ StartInFlight)
  /\ IF NothingToStop(isTracking)
       THEN /\ ev' = Event("stop", "return", FALSE, Null, {},
                           [Idle EXCEPT !.op = "stop", !.path = "noop"])
            /\ UNCHANGED <<locationSubscription, live, calls>>
       ELSE /\ live' = live \ {locationSubscription}
            /\ locationSubscription' = NoSubscription
            /\ calls' = [calls EXCEPT ![c] =
                           [Idle EXCEPT !.op = "stop", !.pc = "query"]]
            /\ ev' = Event("stop", "call", FALSE, Null,
                           IF locationSubscription # NoSubscription
                             THEN {"remove", "isTaskRegisteredAsync"}
                             ELSE {"isTaskRegisteredAsync"},
                           calls'[c])
  /\ UNCHANGED <<isTracking, currentLocation, onLocationUpdate, opened,
                 taskRegistered, invoked>>
  /\ UNCHANGED viewVars

\* The end of the try block of stopTracking: the flags are cleared.
StopCompletes(c, path) ==
  /\ isTracking' = FALSE
  /\ onLocationUpdate' = Undefined
  /\ calls' = Settle(c)
  /\ ev' = Event("stop", "return", FALSE, Null, {},
                 [calls[c] EXCEPT !.path = path])

\* isTaskRegisteredAsync resolved: unregister the background watch if it is
\* registered, otherwise finish.
StopQueryResolved(c) ==
  /\ calls[c].op = "stop" /\ calls[c].pc = "query"
  /\ IF taskRegistered
       THEN /\ calls' = [calls EXCEPT ![c].pc = "bgstop"]
            /\ ev' = Event("stop", "resume", FALSE, Null,
                           {"stopLocationUpdatesAsync"}, calls'[c])
            /\ UNCHANGED <<isTracking, onLocationUpdate>>
       ELSE StopCompletes(c, "bg:none")
  /\ UNCHANGED <<currentLocation, locationSubscription, live, opened,
                 taskRegistered,
                 invoked, startedTrue>>
  /\ UNCHANGED <<overlapped, stopDuringStart>>
  /\ UNCHANGED viewVars

\* stopLocationUpdatesAsync resolved: the background watch is gone.
StopBackgroundResolved(c) ==
  /\ calls[c].op = "stop" /\ calls[c].pc = "bgstop"
  /\ taskRegistered' = FALSE
  /\ StopCompletes(c, "bg:stopped")
  /\ UNCHANGED <<currentLocation, locationSubscription, live, opened,
                 invoked, startedTrue>>
  /\ UNCHANGED <<overlapped, stopDuringStart>>
  /\ UNCHANGED viewVars

\* The registration query or the unregistration rejected: the catch block
\* logs and the method returns; the statements after the failed await
\* (isTracking = false; onLocationUpdate = undefined) are skipped.
StopRejected(c) ==
  /\ calls[c].op = "stop" /\ calls[c].pc \in {"query", "bgstop"}
  /\ calls' = Settle(c)
  /\ ev' = Event("stop", "return", FALSE, Null, {},
                 [calls[c] EXCEPT !.path = calls[c].pc \o ":error"])
  /\ UNCHANGED <<isTracking, currentLocation, locationSubscription,
                 onLocationUpdate, live, opened, taskRegistered, invoked,
                 startedTrue>>
  /\ UNCHANGED <<overlapped, stopDuringStart>>
  /\ UNCHANGED viewVars

\* ------------------------------------------------- the watch callback

\* Mutant of Deliver: the callback is invoked twice for a sample.
DeliverTwice(callback, data) ==
  IF callback # Undefined THEN <<data, data>> ELSE <<>>

\* The samples handed to a callback by the watch callback for one sample:
\* the sample itself if a callback is registered, nothing otherwise.
Deliver(callback, data) ==
  IF callback # Undefined THEN <<data>> ELSE <<>>

\* The sample the watch callback stores for `location`.
WatchStores(location) == Some(ToLocationData(location))

\* A live subscription of the service emits `location`: the watch callback
\* stores the sample and hands it to the registered callback, if any.
WatchEmits(h, location) ==
  /\ h \in live
  /\ Len(invoked) < MaxDeliveries
  /\ currentLocation' = WatchStores(location)
  /\ invoked' = invoked \o Deliver(onLocationUpdate, ToLocationData(location))
  /\ ev' = [Event("emit", "return", FALSE, Some(ToLocationData(location)), {},
                  [Idle EXCEPT !.op = "emit"])
              EXCEPT !.cb = IF Len(invoked') > Len(invoked)
                              THEN onLocationUpdate ELSE Undefined]
  /\ UNCHANGED <<isTracking, locationSubscription, onLocationUpdate, live,
                 opened, taskRegistered, calls, startedTrue>>
  /\ UNCHANGED <<overlapped, stopDuringStart>>
  /\ UNCHANGED viewVars

\* ===================================================== LocationTracker
\* What the view leaves alone: the service.
ServiceUntouched ==
  UNCHANGED <<isTracking, currentLocation, locationSubscription,
              onLocationUpdate, taskRegistered, calls, invoked,
              startedTrue, overlapped, stopDuringStart>>

\* The view's platform calls that have not settled.
ViewPending == pending.perm + pending.watch + pending.initial + pending.fetch

\* A state setter called with `new`: React drops updates of an unmounted
\* component.
SetState(old, new) == IF mounted THEN new ELSE old

\* new Date().toLocaleTimeString(): some non-empty string.
TimeString == "time"

\* The event of a step of the view: the handler or continuation that ran,
\* the platform functions it called, and the alert it showed ("" for none).
ViewEvent(step, api, alert) ==
  Event("view", step, FALSE, Null, api,
        [Idle EXCEPT !.op = "view", !.path = alert])

\* What the render shows: the 'Request Permission' button alone while the
\* permission is denied, the tracker's buttons once it is granted.
ShowsRequestPermission == mounted /\ ~confirmOpen /\ hasPermission = Some(FALSE)
ShowsTracker == mounted /\ ~confirmOpen /\ hasPermission = Some(TRUE)

\* --------------------------------------------------- checkPermissions

\* 'Request Permission' pressed: checkPermissions() runs to its await.
PressRequestPermission ==
  /\ ShowsRequestPermission
  /\ ViewPending < MaxCalls
  /\ pending' = [pending EXCEPT !.perm = @ + 1]
  /\ ev' = ViewEvent("checkPermissions",
                     {"requestForegroundPermissionsAsync"}, "")
  /\ UNCHANGED <<viewIsTracking, viewCurrentLocation, hasPermission,
                 lastUpdateTime, watchSubscription, mounted, confirmOpen,
                 live, opened>>
  /\ ServiceUntouched

\* The permission request resolved with `status`.
CheckPermissionsResolved(status) ==
  /\ pending.perm > 0
  /\ pending' = [pending EXCEPT !.perm = @ - 1]
  /\ hasPermission' = SetState(hasPermission, Some(status = "granted"))
  /\ ev' = ViewEvent("checkPermissions:resolved", {},
                     IF status # "granted" THEN "Permission Required" ELSE "")
  /\ UNCHANGED <<viewIsTracking, viewCurrentLocation, lastUpdateTime,
                 watchSubscription, mounted, confirmOpen, live, opened>>
  /\ ServiceUntouched

\* The permission request rejected: the catch block.
CheckPermissionsRejected ==
  /\ pending.perm > 0
  /\ pending' = [pending EXCEPT !.perm = @ - 1]
  /\ hasPermission' = SetState(hasPermission, Some(FALSE))
  /\ ev' = ViewEvent("checkPermissions:rejected", {}, "")
  /\ UNCHANGED <<viewIsTracking, viewCurrentLocation, lastUpdateTime,
                 watchSubscription, mounted, confirmOpen, live, opened>>
  /\ ServiceUntouched

\* ------------------------------------------------ handleStartTracking

\* 'Start Tracking' pressed: without permission the handler re-requests
\* it, with permission it shows the confirmation prompt.
PressStartTracking ==
  /\ ShowsTracker /\ ~viewIsTracking
  /\ ViewPending < MaxCalls
  /\ opened + pending.watch < MaxHandles
  /\ IF hasPermission # Some(TRUE)
       THEN /\ pending' = [pending EXCEPT !.perm = @ + 1]
            /\ ev' = ViewEvent("handleStartTracking",
                               {"requestForegroundPermissionsAsync"}, "")
            /\ UNCHANGED confirmOpen
       ELSE /\ confirmOpen' = TRUE
            /\ ev' = ViewEvent("handleStartTracking", {},
                               "Start Location Tracking")
            /\ UNCHANGED pending
  /\ UNCHANGED <<viewIsTracking, viewCurrentLocation, hasPermission,
                 lastUpdateTime, watchSubscription, mounted, live, opened>>
  /\ ServiceUntouched

\* Mutant of CancelPending: Cancel runs the Start button's onPress.
CancelStartsWatch(p) == [p EXCEPT !.watch = @ + 1]

\* The view's pending calls after Cancel: the button has no onPress, so
\* nothing is called.
CancelPending(p) == p

\* 'Cancel' chosen in the prompt.
ConfirmCancel ==
  /\ confirmOpen
  /\ confirmOpen' = FALSE
  /\ pending' = CancelPending(pending)
  /\ ev' = ViewEvent("confirm:cancel", {}, "")
  /\ UNCHANGED <<viewIsTracking, viewCurrentLocation, hasPermission,
                 lastUpdateTime, watchSubscription, mounted,
                 live, opened>>
  /\ ServiceUntouched

\* 'Start' chosen in the prompt: onPress runs to the await of
\* watchPositionAsync.
ConfirmStart ==
  /\ confirmOpen
  /\ confirmOpen' = FALSE
  /\ pending' = [pending EXCEPT !.watch = @ + 1]
  /\ ev' = ViewEvent("confirm:start", {"watchPositionAsync"}, "")
  /\ UNCHANGED <<viewIsTracking, viewCurrentLocation, hasPermission,
                 lastUpdateTime, watchSubscription, mounted, live, opened>>
  /\ ServiceUntouched

\* watchPositionAsync resolved with a new subscription: it is stored, the
\* view is TRACKING, and the initial one-shot fetch is issued.
ViewWatchResolved ==
  /\ pending.watch > 0
  /\ opened < MaxHandles
  /\ opened' = opened + 1
  /\ live' = live \cup {opened'}
  /\ watchSubscription' = SetState(watchSubscription, opened')
  /\ viewIsTracking' = SetState(viewIsTracking, TRUE)
  /\ pending' = [pending EXCEPT !.watch = @ - 1, !.initial = @ + 1]
  /\ ev' = ViewEvent("start:watching", {"getCurrentPositionAsync"}, "")
  /\ UNCHANGED <<viewCurrentLocation, hasPermission, lastUpdateTime,
                 mounted, confirmOpen>>
  /\ ServiceUntouched

\* watchPositionAsync rejected: the catch block shows the error.
ViewWatchRejected ==
  /\ pending.watch > 0
  /\ pending' = [pending EXCEPT !.watch = @ - 1]
  /\ ev' = ViewEvent("start:watchError", {},
                     "Failed to start location tracking")
  /\ UNCHANGED <<viewIsTracking, viewCurrentLocation, hasPermission,
                 lastUpdateTime, watchSubscription, mounted, confirmOpen,
                 live, opened>>
  /\ ServiceUntouched

\* The initial fetch resolved: the display is populated.
InitialFetchResolved(location) ==
  /\ pending.initial > 0
  /\ pending' = [pending EXCEPT !.initial = @ - 1]
  /\ viewCurrentLocation' =
       SetState(viewCurrentLocation, Some(ToLocationData(location)))
  /\ lastUpdateTime' = SetState(lastUpdateTime, TimeString)
  /\ ev' = ViewEvent("start:initial", {}, "")
  /\ UNCHANGED <<viewIsTracking, hasPermission, watchSubscription, mounted,
                 confirmOpen, live, opened>>
  /\ ServiceUntouched

\* The initial fetch rejected: the same catch block shows the error; the
\* subscription and isTracking set before the fetch stay as they are.
InitialFetchRejected ==
  /\ pending.initial > 0
  /\ pending' = [pending EXCEPT !.initial = @ - 1]
  /\ ev' = ViewEvent("start:initialError", {},
                     "Failed to start location tracking")
  /\ UNCHANGED <<viewIsTracking, viewCurrentLocation, hasPermission,
                 lastUpdateTime, watchSubscription, mounted, confirmOpen,
                 live, opened>>
  /\ ServiceUntouched

\* The view's watch callback: a live subscription emits `location`.
ViewWatchEmits(h, location) ==
  /\ h \in live
  /\ viewCurrentLocation' =
       SetState(viewCurrentLocation, Some(ToLocationData(location)))
  /\ lastUpdateTime' = SetState(lastUpdateTime, TimeString)
  /\ ev' = ViewEvent("watch:emit", {}, "")
  /\ UNCHANGED <<viewIsTracking, hasPermission, watchSubscription, mounted,
                 confirmOpen, pending, live, opened>>
  /\ ServiceUntouched

\* ------------------------------------------------- handleStopTracking

\* 'Stop Tracking' pressed.
PressStopTracking ==
  /\ ShowsTracker /\ viewIsTracking
  /\ IF watchSubscription # NoSubscription
       THEN /\ live' = live \ {watchSubscription}
            /\ watchSubscription' = NoSubscription
            /\ ev' = ViewEvent("handleStopTracking", {"remove"}, "")
       ELSE /\ ev' = ViewEvent("handleStopTracking", {}, "")
            /\ UNCHANGED <<live, watchSubscription>>
  /\ viewIsTracking' = FALSE
  /\ lastUpdateTime' = ""
  /\ UNCHANGED <<viewCurrentLocation, hasPermission, mounted, confirmOpen,
                 pending, opened>>
  /\ ServiceUntouched

\* ------------------------------------------- handleGetCurrentLocation

\* 'Get Current Location' pressed: without permission the handler
\* re-requests it, with permission it runs to the await of the fetch.
PressGetCurrentLocation ==
  /\ ShowsTracker /\ ~viewIsTracking
  /\ ViewPending < MaxCalls
  /\ IF hasPermission # Some(TRUE)
       THEN /\ pending' = [pending EXCEPT !.perm = @ + 1]
            /\ ev' = ViewEvent("handleGetCurrentLocation",
                               {"requestForegroundPermissionsAsync"}, "")
       ELSE /\ pending' = [pending EXCEPT !.fetch = @ + 1]
            /\ ev' = ViewEvent("handleGetCurrentLocation",
                               {"getCurrentPositionAsync"}, "")
  /\ UNCHANGED <<viewIsTracking, viewCurrentLocation, hasPermission,
                 lastUpdateTime, watchSubscription, mounted, confirmOpen,
                 live, opened>>
  /\ ServiceUntouched

\* The fetch resolved: the display is updated.
ViewFetchResolved(location) ==
  /\ pending.fetch > 0
  /\ pending' = [pending EXCEPT !.fetch = @ - 1]
  /\ viewCurrentLocation' =
       SetState(viewCurrentLocation, Some(ToLocationData(location)))
  /\ lastUpdateTime' = SetState(lastUpdateTime, TimeString)
  /\ ev' = ViewEvent("get:resolved", {}, "")
  /\ UNCHANGED <<viewIsTracking, hasPermission, watchSubscription, mounted,
                 confirmOpen, live, opened>>
  /\ ServiceUntouched

\* The fetch rejected: the catch block shows the error.
ViewFetchRejected ==
  /\ pending.fetch > 0
  /\ pending' = [pending EXCEPT !.fetch = @ - 1]
  /\ ev' = ViewEvent("get:rejected", {}, "Failed to get current location")
  /\ UNCHANGED <<viewIsTracking, viewCurrentLocation, hasPermission,
                 lastUpdateTime, watchSubscription, mounted, confirmOpen,
                 live, opened>>
  /\ ServiceUntouched

\* ------------------------------------------------------------ unmount

\* The watchSubscription the mount effect's cleanup reads.  The effect has
\* an empty dependency list, so it and its cleanup are the closures of the
\* first render, in which watchSubscription is its useState initial value.
CleanupSubscription == NoSubscription

\* The subscriptions left live by the cleanup.
CleanupLeaves(subs) ==
  IF CleanupSubscription # NoSubscription
    THEN subs \ {CleanupSubscription} ELSE subs

\* The component unmounts: React runs the mount effect's cleanup.
Unmount ==
  /\ mounted
  /\ mounted' = FALSE
  /\ live' = CleanupLeaves(live)
  /\ ev' = ViewEvent("unmount",
                     IF CleanupSubscription # NoSubscription
                       THEN {"remove"} ELSE {}, "")
  /\ UNCHANGED <<viewIsTracking, viewCurrentLocation, hasPermission,
                 lastUpdateTime, watchSubscription, confirmOpen, pending,
                 opened>>
  /\ ServiceUntouched

\* ------------------------------------------------------ specification
\* The permission requests.
PermissionNext ==
  \/ \E c \in CallIds : RequestPermissions(c)
  \/ \E c \in CallIds, s \in PermissionStatuses : ForegroundResolved(c, s)
  \/ \E c \in CallIds, s \in PermissionStatuses : BackgroundResolved(c, s)
  \/ \E c \in CallIds : PermissionRejected(c)

\* The one-shot fetch.
FetchNext ==
  \/ \E c \in CallIds : GetCurrentLocation(c)
  \/ \E c \in CallIds, l \in PlatformLocations : FetchResolved(c, l)
  \/ \E c \in CallIds : FetchRejected(c)

\* Starting and stopping the tracking.
TrackingNext ==
  \/ \E c \in CallIds, cb \in CallbackArgs : StartTracking(c, cb)
  \/ \E c \in CallIds : StartWatchResolved(c)
  \/ \E c \in CallIds : StartWatchRejected(c)
  \/ \E c \in CallIds : StartQueryResolved(c)
  \/ \E c \in CallIds : StartBackgroundResolved(c)
  \/ \E c \in CallIds : StartBackgroundRejected(c)
  \/ \E c \in CallIds : StopTracking(c)
  \/ \E c \in CallIds : StopQueryResolved(c)
  \/ \E c \in CallIds : StopBackgroundResolved(c)
  \/ \E c \in CallIds : StopRejected(c)

\* The platform delivering samples to the service's watch callback.
DeliveryNext ==
  \E h \in 1..MaxHandles, l \in PlatformLocations : WatchEmits(h, l)

\* Callers starting, stopping and fetching, in any interleaving.
Next == TrackingNext \/ FetchNext

Spec == Init /\ [][Next]_vars

\* A caller that awaits each call before it makes the next one.
SequentialNext ==
  \/ Quiescent /\ \E c \in CallIds, cb \in CallbackArgs : StartTracking(c, cb)
  \/ Quiescent /\ \E c \in CallIds : StopTracking(c)
  \/ Quiescent /\ \E c \in CallIds : GetCurrentLocation(c)
  \/ \E c \in CallIds : StartWatchResolved(c)
  \/ \E c \in CallIds : StartWatchRejected(c)
  \/ \E c \in CallIds : StartQueryResolved(c)
  \/ \E c \in CallIds : StartBackgroundResolved(c)
  \/ \E c \in CallIds : StartBackgroundRejected(c)
  \/ \E c \in CallIds : StopQueryResolved(c)
  \/ \E c \in CallIds : StopBackgroundResolved(c)
  \/ \E c \in CallIds : StopRejected(c)
  \/ \E c \in CallIds, l \in PlatformLocations : FetchResolved(c, l)
  \/ \E c \in CallIds : FetchRejected(c)

SequentialSpec == Init /\ [][SequentialNext]_vars

\* Callers starting and stopping while the watches deliver samples.
DeliverySpec == Init /\ [][TrackingNext \/ DeliveryNext]_vars

\* Callers requesting permissions and fetching.
PermissionSpec == Init /\ [][PermissionNext \/ FetchNext]_vars

\* The user's gestures on the LocationTracker view, the platform settling
\* the view's calls and delivering samples, and the unmount.
ViewNext ==
  \/ PressRequestPermission
  \/ \E s \in PermissionStatuses : CheckPermissionsResolved(s)
  \/ CheckPermissionsRejected
  \/ PressStartTracking
  \/ ConfirmCancel
  \/ ConfirmStart
  \/ ViewWatchResolved
  \/ ViewWatchRejected
  \/ \E l \in PlatformLocations : InitialFetchResolved(l)
  \/ InitialFetchRejected
  \/ \E h \in 1..MaxHandles, l \in PlatformLocations : ViewWatchEmits(h, l)
  \/ PressStopTracking
  \/ PressGetCurrentLocation
  \/ \E l \in PlatformLocations : ViewFetchResolved(l)
  \/ ViewFetchRejected
  \/ Unmount

ViewSpec == Init /\ [][ViewNext]_vars

\* ============================================================== claims
\* The last step was an invocation of startTracking / stopTracking (the
\* synchronous part: an early return, or up to the first await).
StartInvoked ==
  ev.op = "start" /\ (ev.step = "call" \/ ev.call.path = "already")
StopInvoked ==
  ev.op = "stop" /\ (ev.step = "call" \/ ev.call.path = "noop")

\* C1: two startTracking calls made one after the other by a caller that
\* awaits each call (the second invoked after the first returned true, with
\* no stopTracking in between): the second returns true at once, calls no
\* watchPositionAsync, and exactly one foreground subscription is live
\* afterwards.
C1_StartTwiceOneSubscription ==
  (StartInvoked /\ ev.seq)
    => (/\ ev.step = "return" /\ ev.ok
        /\ "watchPositionAsync" \notin ev.api
        /\ Cardinality(live) = 1)

\* C2: at most one foreground subscription opened by the service is live,
\* in every reachable state.
C2_AtMostOneSubscription == Cardinality(live) <= 1

\* C3: once a stopTracking call on a tracking service has completed,
\* isTracking is false, and a startTracking invoked next opens a watch
\* through watchPositionAsync.
C3_StopThenFreshStart ==
  [][(ev.op = "stop" /\ ev.step = "return" /\ ev.call.path # "noop")
     => (/\ ~isTracking
         /\ StartInvoked' => "watchPositionAsync" \in ev'.api)]_vars

\* C4: when the registration query or the unregistration fails during
\* stopTracking, the call returns (does not throw) with isTracking false and
\* the callback absent.
C4_StopFailureClearsFlags ==
  (ev.op = "stop" /\ ev.call.path \in {"query:error", "bgstop:error"})
    => (ev.step = "return" /\ ~isTracking /\ onLocationUpdate = Undefined)

\* C5: a getCurrentLocation call whose fetch fails returns null and leaves
\* the stored sample as it was; one whose fetch succeeds stores the fetched
\* sample and returns it; neither throws.
C5_FetchFailureKeepsSample ==
  [][(ev'.op = "get" /\ ev'.step # "call")
     => (/\ ev'.step = "return"
         /\ IF ev'.call.path = "fetch:error"
              THEN ev'.val = Null /\ currentLocation' = currentLocation
              ELSE /\ \E l \in PlatformLocations :
                        ev'.val = Some(ToLocationData(l))
                   /\ currentLocation' = ev'.val)]_vars

\* C5 witness: a failed fetch has returned null and a sample stored earlier
\* is still there.
C5_Witness ==
  /\ ev.op = "get" /\ ev.step = "return" /\ ev.call.path = "fetch:error"
  /\ ev.val = Null
  /\ currentLocation # Null

\* C6: every sample a watch of the service emits is stored as the last-known
\* sample and, while a callback is registered, handed to that callback
\* exactly once, after the samples handed over before it.
C6_DeliveredOnceInOrder ==
  [][(ev'.op = "emit")
     => (\E l \in PlatformLocations :
           /\ ev'.val = Some(ToLocationData(l))
           /\ currentLocation' = Some(ToLocationData(l))
           /\ IF onLocationUpdate # Undefined
                THEN /\ invoked' = Append(invoked, ToLocationData(l))
                     /\ ev'.cb = onLocationUpdate
                ELSE /\ invoked' = invoked
                     /\ ev'.cb = Undefined)]_vars

\* C6 witness: while tracking with a callback, two different samples have
\* been delivered, and the stored sample is the second.
C6_Witness ==
  /\ isTracking /\ onLocationUpdate \in Callbacks
  /\ ev.op = "emit"
  /\ Len(invoked) = 2 /\ invoked[1] # invoked[2]
  /\ currentLocation = Some(invoked[2])

\* C7: requestPermissions asks for the foreground permission first and for
\* the background permission only after the foreground one was granted; it
\* returns false when foreground is denied, true when foreground is granted
\* whatever the background answer, and false, without throwing, when a
\* request fails.
C7_PermissionResult ==
  (ev.op = "perm")
    => /\ ev.step # "throw"
       /\ ev.step = "call" => ev.api = {"requestForegroundPermissionsAsync"}
       /\ ev.step = "resume" =>
            /\ ev.api = {"requestBackgroundPermissionsAsync"}
            /\ ev.call.path = "fg:granted"
       /\ ev.step = "return" =>
            /\ ev.api = {}
            /\ ev.call.path \in {"fg:denied", "fg:error", "bg:error",
                                 "bg:granted", "bg:denied"}
            /\ ev.ok = (ev.call.path \in {"bg:granted", "bg:denied"})

\* C7 witness: foreground granted, background denied, and the call
\* returned true.
C7_Witness ==
  ev.op = "perm" /\ ev.step = "return" /\ ev.call.path = "bg:denied" /\ ev.ok

\* C8: for a caller that awaits each call: when the watch opened and the
\* background part then fails (the registration query or the registration
\* rejects), startTracking returns true with isTracking true, the
\* foreground subscription it opened is held and live (the failure handling
\* releases nothing), and no background watch is registered.
C8_BackgroundFailureStillStarts ==
  [][(ev'.op = "start" /\ ev'.step # "call"
      /\ ev'.call.path \in {"query:error", "bgstart:error"})
     => (/\ ev'.step = "return" /\ ev'.ok
         /\ isTracking'
         /\ locationSubscription' # NoSubscription
         /\ locationSubscription' \in live'
         /\ live' = live
         /\ ~taskRegistered'
         /\ ev'.api = {})]_vars

\* C8 witness: the registration was rejected, startTracking returned true,
\* the service is tracking on a live foreground subscription and no
\* background watch is registered.
C8_Witness ==
  /\ ev.op = "start" /\ ev.step = "return" /\ ev.call.path = "bgstart:error"
  /\ ev.ok /\ isTracking
  /\ locationSubscription \in live
  /\ ~taskRegistered

\* C9: stopTracking invoked while not tracking returns at once, calls no
\* platform function, and changes nothing of the service or the platform.
C9_StopWhenIdleIsNoop ==
  [][(StopInvoked' /\ ~isTracking)
     => (/\ ev'.step = "return"
         /\ ev'.api = {}
         /\ UNCHANGED <<isTracking, currentLocation, locationSubscription,
                        onLocationUpdate, live, opened, taskRegistered,
                        calls, invoked>>)]_vars

\* C9 witness: stopTracking has returned as a no-op before any
\* startTracking opened a watch, with a sample stored by an earlier fetch.
C9_Witness ==
  /\ ev.op = "stop" /\ ev.step = "return" /\ ev.call.path = "noop"
  /\ opened = 0
  /\ currentLocation # Null

\* C10: after the view was unmounted while it held a watch subscription,
\* that subscription is not live any more.
C10_UnmountReleasesSubscription ==
  (ev.op = "view" /\ ev.step = "unmount"
   /\ watchSubscription # NoSubscription)
    => watchSubscription \notin live

\* C11: when the initial fetch of a start settles after handleStopTracking
\* has run (the view is STOPPED), the result is not acted upon: the view
\* stays STOPPED and its displayed location and its cleared timestamp are
\* left as they are.
C11_StoppedViewIgnoresInitialFetch ==
  [][(/\ ev'.op = "view"
      /\ ev'.step \in {"start:initial", "start:initialError"}
      /\ ~viewIsTracking)
     => UNCHANGED <<viewIsTracking, viewCurrentLocation, lastUpdateTime>>]_vars

\* C12: the view calls watchPositionAsync only in the step in which Start is
\* chosen in the confirmation prompt, the prompt opens only while the
\* permission is granted, pressing Start Tracking without the permission
\* only re-requests it, and choosing Cancel calls no platform function and
\* leaves isTracking, the subscription handle, the displayed location, the
\* timestamp and the platform's subscriptions as they are.
C12_WatchOnlyAfterGrantAndConfirm ==
  [][(ev'.op = "view")
     => (/\ "watchPositionAsync" \in ev'.api
              => (ev'.step = "confirm:start" /\ confirmOpen)
         /\ (confirmOpen' /\ ~confirmOpen)
              => (/\ hasPermission = Some(TRUE)
                  /\ ev'.step = "handleStartTracking"
                  /\ ev'.api = {})
         /\ (ev'.step = "handleStartTracking" /\ hasPermission # Some(TRUE))
              => (/\ ev'.api = {"requestForegroundPermissionsAsync"}
                  /\ ~confirmOpen'
                  /\ UNCHANGED <<live, opened>>)
         /\ ev'.step = "confirm:cancel"
              => (/\ ev'.api = {}
                  /\ UNCHANGED <<viewIsTracking, watchSubscription,
                                 viewCurrentLocation, lastUpdateTime,
                                 live, opened, pending>>))]_vars

\* C12 witness: Cancel was chosen once a location was displayed, and no
\* watch was ever opened.
C12_Witness ==
  /\ ev.op = "view" /\ ev.step = "confirm:cancel"
  /\ hasPermission = Some(TRUE)
  /\ viewCurrentLocation # Null /\ lastUpdateTime # ""
  /\ opened = 0 /\ pending.watch = 0

\* C13: at most one watch subscription opened by the view is live, in every
\* reachable state of the view.
C13_ViewAtMostOneSubscription ==
  \A h1 \in live, h2 \in live : h1 = h2

\* C14: isTracking becomes true only in the return of a startTracking call
\* whose watchPositionAsync has resolved and whose handle was stored; a
\* startTracking whose watchPositionAsync fails returns false without
\* throwing, leaves isTracking as it was (false stays false) and stores no
\* subscription handle.
C14_TrackingOnlyAfterWatch ==
  [][/\ (~isTracking /\ isTracking')
          => (/\ ev'.op = "start" /\ ev'.step = "return" /\ ev'.ok
              /\ ev'.call.pc \in {"query", "bgstart"}
              /\ ev'.call.path \in {"bg:already", "bg:started",
                                     "query:error", "bgstart:error"})
     /\ (\E c \in CallIds : /\ calls[c].op = "start" /\ calls[c].pc = "watch"
                             /\ calls'[c] # calls[c])
          => (/\ ev'.op = "start"
              /\ ~isTracking => ~isTracking'
              /\ IF ev'.call.path = "watch:error"
                   THEN /\ ev'.step = "return" /\ ~ev'.ok
                        /\ UNCHANGED <<isTracking, locationSubscription,
                                       live, opened>>
                   ELSE /\ ev'.step = "resume"
                        /\ locationSubscription' \in live' \ live)]_vars

\* C14 witness: watchPositionAsync was rejected and startTracking returned
\* false, with isTracking false and no subscription handle stored.
C14_Witness ==
  /\ ev.op = "start" /\ ev.step = "return" /\ ev.call.path = "watch:error"
  /\ ~ev.ok /\ ~isTracking
  /\ locationSubscription = NoSubscription /\ live = {}

\* C15: startLocationUpdatesAsync is never called for the background task
\* while the task is registered or while another registration of it is in
\* progress.
C15_NoDoubleRegistration ==
  (ev.op = "start" /\ "startLocationUpdatesAsync" \in ev.api)
    => (/\ ~taskRegistered
        /\ Cardinality({c \in CallIds : calls[c].pc = "bgstart"}) <= 1)

\* C16: startTracking(a) was invoked and, before it returned,
\* startTracking(b) with a different callback b: once both calls have
\* returned (and no other call was made), every sample a live subscription
\* delivers is handed to b and none to a, and b is the registered callback.
C16_FirstCallbackDropped ==
  (/\ Len(overlapped) = 2 /\ Quiescent
   /\ overlapped[1] \in Callbacks /\ overlapped[2] \in Callbacks
   /\ overlapped[1] # overlapped[2])
    => (/\ onLocationUpdate = overlapped[2]
        /\ ev.op = "emit" => (ev.cb = overlapped[2] /\ ev.cb # overlapped[1]))

\* C16 witness: after startTracking("A") overlapped by startTracking("B"),
\* both returned, two samples were delivered, the last one to B.
C16_Witness ==
  /\ overlapped = <<"A", "B">> /\ Quiescent
  /\ ev.op = "emit" /\ ev.cb = "B"
  /\ Len(invoked) = 2

\* C17: a permission request issued with the 'Request Permission' button
\* (the view is DENIED) puts the view back to CHECKING_PERMISSION:
\* hasPermission is unknown while the request is pending.
C17_RecheckShowsChecking ==
  (ev.op = "view" /\ ev.step = "checkPermissions")
    => hasPermission = Null

\* C18: whenever no service call is in flight, isTracking true implies that
\* a foreground subscription handle is held and that it is live.
C18_TrackingHoldsSubscription ==
  (Quiescent /\ isTracking)
    => (locationSubscription # NoSubscription /\ locationSubscription \in live)

\* C19: stopTracking was invoked while a startTracking was in flight and no
\* startTracking was invoked since: once no call is in flight, the service
\* is not tracking and holds no live foreground subscription.
C19_StopDuringStartNotLost ==
  (stopDuringStart /\ Quiescent)
    => (/\ ~isTracking
        /\ locationSubscription = NoSubscription
        /\ live = {})

\* C20: after a stopTracking call has completed without a platform error,
\* a watch delivery that comes before any other call neither changes the
\* stored sample nor invokes a callback.
C20_NoDeliveryAfterStop ==
  [][(/\ ev.op = "stop" /\ ev.step = "return"
      /\ ev.call.path \in {"bg:none", "bg:stopped"}
      /\ ev'.op = "emit")
     => (currentLocation' = currentLocation /\ ev'.cb = Undefined)]_vars

\* C21: whenever the view has shown 'Failed to start location tracking' for
\* a confirmed start, the view is STOPPED and holds no watch subscription;
\* in particular after the initial fetch failed once the watch was opened.
C21_StartErrorLeavesStopped ==
  (/\ ev.op = "view"
   /\ ev.step \in {"start:watchError", "start:initialError"}
   /\ ev.call.path = "Failed to start location tracking")
    => (/\ ~viewIsTracking
        /\ watchSubscription = NoSubscription)

====
